---- MODULE Spec2Model ----
(***************************************************************************)
(* heap_useNewlib_NXP.c: newlib's sbrk / malloc-lock / env-lock hooks and  *)
(* the FreeRTOS heap API routed to newlib's malloc family.                 *)
(*                                                                         *)
(* Addresses are values of a flat address space of AddrBits bits, as the   *)
(* build compares them (unsigned, modulo 2^AddrBits).  The heap region     *)
(* [HeapBase, HeapLimit) lies in the lower half of the address space, as   *)
(* on-chip RAM does.  Callers are the tasks and one interrupt handler.     *)
(***************************************************************************)
EXTENDS Integers, Sequences, FiniteSets, TLC

\* ---------------------------------------------------------------- bounds
\* pointer width; the linker's region [HeapBase, HeapBase + HEAP_SIZE); the
\* largest growth and shrink requested; tasks; critical sections nested;
\* interrupt handlers run; the free bytes newlib reports; the largest size
\* requested of malloc; and the requests made of the wrapped malloc
AddrBits == 5
HeapBase == 2
HEAP_SIZE == 4
MaxIncr == 4
MaxShrink == 2
NumTasks == 2
MaxNesting == 3
MaxInterrupts == 1
MaxFree == 2
MaxBytes == 2
MaxRequests == 3

\* ------------------------------------------------------------- constants
ENOMEM == 12

AddrSpace == 2 ^ AddrBits
HeapLimit == HeapBase + HEAP_SIZE
\* (char *)-1
SbrkFailed == AddrSpace - 1
Increments == (0 - MaxShrink) .. MaxIncr

Tasks == 1 .. NumTasks
ISR == 0
Callers == Tasks \cup {ISR}
Policies == {"Default", "CallFailureHook", "HardStop"}

\* pointer + int as the target computes it
PtrAdd(p, n) == (p + n) % AddrSpace

VARIABLES
    currentHeapEnd,            \* static char *currentHeapEnd
    heapBytesRemaining,        \* static int heapBytesRemaining
    totalBytesProvidedBySBRK,  \* static int totalBytesProvidedBySBRK
    uxSchedulerSuspended,      \* the scheduler's suspension nesting depth
    running,                   \* the task the scheduler has switched in
    policy,                    \* the build's out-of-memory policy
    assertFailed,              \* configASSERT has fired: the system is halted
    pc,                        \* each caller's position
    held,                      \* each caller's open lock sections, outermost first
    op,                        \* the newlib routine a caller is inside, if any
    incr,                      \* _sbrk_r's argument, per caller in the call
    previousHeapEnd,           \* _sbrk_r's local, per caller in the call
    errno,                     \* pReent->_errno of each caller's reentrancy context
    entry,                     \* tracker state and depth a call in flight found on entry
    last,                      \* the _sbrk_r call that returned in the step just taken
    hookCalls,                 \* vApplicationMallocFailedHook calls of the call in flight
    isrSuspends,               \* vTaskSuspendAll has been invoked in interrupt context
    isrCalled,                 \* the entry point the active interrupt handler called last
    interrupts,                \* interrupt handlers started so far
    sumGranted,                \* sum of the deltas of the successful calls
    granted,                   \* addresses inside a window granted so far, where recorded
    overlap,                   \* some granted window met an earlier one
    reqSum,                    \* sum of all deltas requested, while non-negative and fitting
    leastFailed,               \* the least non-negative delta a call has failed with
    mi,                        \* xPortGetFreeHeapSize's local: mi.fordblks, per caller
    MallocCallCnt,             \* int MallocCallCnt
    TotalMallocdBytes,         \* size_t TotalMallocdBytes
    inside_malloc,             \* static bool inside_malloc
    nbytes,                    \* the wrappers' argument, per caller
    reg,                       \* the value a caller has loaded and not yet stored back
    wrap,                      \* the wrapper a caller is inside, if any
    requests,                  \* allocation requests made by the application
    requestedBytes             \* sum of the sizes it requested

vars == <<currentHeapEnd, heapBytesRemaining, totalBytesProvidedBySBRK,
          uxSchedulerSuspended, running, policy, assertFailed, pc, held, op,
          incr, previousHeapEnd, errno, entry, last, hookCalls, isrSuspends,
          isrCalled, interrupts, sumGranted, granted, overlap, reqSum,
          leastFailed, mi, MallocCallCnt, TotalMallocdBytes, inside_malloc, nbytes,
          reg, wrap, requests, requestedBytes>>

tracker == <<currentHeapEnd, heapBytesRemaining, totalBytesProvidedBySBRK>>
locals == <<incr, previousHeapEnd, entry, hookCalls>>
history == <<sumGranted, granted, overlap, reqSum, leastFailed>>
counters == <<MallocCallCnt, TotalMallocdBytes, inside_malloc>>
wrappers == <<counters, nbytes, reg, wrap, requests, requestedBytes>>
shim == <<mi, wrappers>>

\* reqSum once a negative delta was requested or the sum passed the region size
Out == 0 - 1

NoEntry == [end |-> 0, rem |-> 0, tot |-> 0, depth |-> 0, req |-> 0, err |-> 0]
NoCall == [valid |-> FALSE, who |-> ISR, incr |-> 0, failed |-> FALSE, ret |-> 0,
           hook |-> 0, before |-> NoEntry, after |-> NoEntry]

Snapshot(depth, req, err) ==
    [end |-> currentHeapEnd, rem |-> heapBytesRemaining,
     tot |-> totalBytesProvidedBySBRK, depth |-> depth, req |-> req, err |-> err]

\* leastFailed while no call with a non-negative delta has failed
NoneFailed == AddrSpace

\* leastFailed where the failures are not recorded
Unrecorded == AddrSpace + 1

\* granted where the windows are not recorded
Untracked == {AddrSpace}

InitProgram ==
    /\ currentHeapEnd = HeapBase
    /\ heapBytesRemaining = HEAP_SIZE
    /\ totalBytesProvidedBySBRK = 0
    /\ uxSchedulerSuspended = 0
    /\ running \in Tasks
    /\ policy \in Policies
    /\ assertFailed = FALSE
    /\ pc = [c \in Callers |-> "idle"]
    /\ held = [c \in Callers |-> <<>>]
    /\ op = [c \in Callers |-> "none"]
    /\ incr = [c \in Callers |-> 0]
    /\ previousHeapEnd = [c \in Callers |-> 0]
    /\ errno = [c \in Callers |-> 0]
    /\ entry = [c \in Callers |-> NoEntry]
    /\ last = NoCall
    /\ hookCalls = [c \in Callers |-> 0]
    /\ isrSuspends = FALSE
    /\ isrCalled = "none"
    /\ interrupts = 0
    /\ sumGranted = 0
    /\ overlap = FALSE
    /\ reqSum = 0
    /\ mi = [c \in Callers |-> 0]
    /\ MallocCallCnt = 0
    /\ TotalMallocdBytes = 0
    /\ inside_malloc = FALSE
    /\ nbytes = [c \in Callers |-> 0]
    /\ reg = [c \in Callers |-> 0]
    /\ wrap = [c \in Callers |-> "none"]
    /\ requests = 0
    /\ requestedBytes = 0

Init == InitProgram /\ granted = Untracked /\ leastFailed = Unrecorded

\* the same program, with every granted window recorded
InitWindows == InitProgram /\ granted = {} /\ leastFailed = Unrecorded

\* the same program, with the failed deltas recorded
InitFailures == InitProgram /\ granted = Untracked /\ leastFailed = NoneFailed

\* ------------------------------------------------------------- scheduler
xPortIsInsideInterrupt(c) == c = ISR

\* the interrupt handler has started and not yet returned
InInterrupt == pc[ISR] # "idle" \/ held[ISR] # <<>>

\* a task runs when switched in and no handler is active; a handler preempts
CanRun(c) ==
    /\ ~assertFailed
    /\ IF c = ISR THEN InInterrupt \/ interrupts < MaxInterrupts
                  ELSE ~InInterrupt /\ running = c

vTaskSuspendAll(c) ==
    /\ uxSchedulerSuspended' = uxSchedulerSuspended + 1
    /\ isrSuspends' = (isrSuspends \/ xPortIsInsideInterrupt(c))

xTaskResumeAll ==
    uxSchedulerSuspended' = uxSchedulerSuspended - 1

\* the scheduler switches tasks only while not suspended
ContextSwitch(t) ==
    /\ ~assertFailed
    /\ ~InInterrupt
    /\ uxSchedulerSuspended = 0
    /\ running # t
    /\ running' = t
    /\ last' = NoCall
    /\ UNCHANGED <<tracker, uxSchedulerSuspended, policy, assertFailed, pc, held, op,
                   locals, errno, isrSuspends, isrCalled, interrupts, history, shim>>

\* the handler's latest entry point; forgotten when the handler returns
NoteCall(c, fn) ==
    /\ isrCalled' = IF c # ISR THEN isrCalled
                    ELSE IF pc'[ISR] = "idle" /\ held'[ISR] = <<>> /\ ~assertFailed'
                            THEN "none"
                    ELSE IF fn = "" THEN isrCalled ELSE fn
    /\ interrupts' = IF c = ISR /\ ~InInterrupt THEN interrupts + 1 ELSE interrupts

\* ----------------------------------------------------------------- locks
Acquire(c, lock) ==
    /\ vTaskSuspendAll(c)
    /\ held' = [held EXCEPT ![c] = Append(@, lock)]
    /\ UNCHANGED assertFailed

\* configASSERT(x) with x false: the system halts
AssertFails ==
    /\ assertFailed' = TRUE
    /\ UNCHANGED <<uxSchedulerSuspended, isrSuspends, held>>

Release(c, lock) ==
    /\ held[c] # <<>>
    /\ held[c][Len(held[c])] = lock
    /\ xTaskResumeAll
    /\ held' = [held EXCEPT ![c] = SubSeq(@, 1, Len(@) - 1)]

\* __malloc_lock without its configASSERT
malloc_lock_unguarded(c) == Acquire(c, "malloc")

malloc_lock(c) ==
    IF xPortIsInsideInterrupt(c) THEN AssertFails ELSE Acquire(c, "malloc")

malloc_unlock(c) == Release(c, "malloc")

env_lock(c) == Acquire(c, "env")

env_unlock(c) == Release(c, "env")

MallocLock(c) ==
    /\ CanRun(c) /\ pc[c] = "idle"
    /\ uxSchedulerSuspended < MaxNesting
    /\ malloc_lock(c)
    /\ last' = NoCall
    /\ UNCHANGED <<tracker, running, policy, pc, op, locals, errno, history>>
    /\ UNCHANGED shim
    /\ NoteCall(c, "__malloc_lock")

MallocUnlock(c) ==
    /\ CanRun(c) /\ pc[c] = "idle"
    /\ malloc_unlock(c)
    /\ last' = NoCall
    /\ UNCHANGED <<tracker, running, policy, assertFailed, pc, op, locals, errno,
                   isrSuspends, history>>
    /\ UNCHANGED shim
    /\ NoteCall(c, "")

EnvLock(c) ==
    /\ CanRun(c) /\ pc[c] = "idle"
    /\ uxSchedulerSuspended < MaxNesting
    /\ env_lock(c)
    /\ last' = NoCall
    /\ UNCHANGED <<tracker, running, policy, pc, op, locals, errno, history>>
    /\ UNCHANGED shim
    /\ NoteCall(c, "__env_lock")

EnvUnlock(c) ==
    /\ CanRun(c) /\ pc[c] = "idle"
    /\ env_unlock(c)
    /\ last' = NoCall
    /\ UNCHANGED <<tracker, running, policy, assertFailed, pc, op, locals, errno,
                   isrSuspends, history>>
    /\ UNCHANGED shim
    /\ NoteCall(c, "")

\* --------------------------------------------------------------- _sbrk_r
InSbrk(c) == pc[c] \in {"sbrk_check", "sbrk_fail", "sbrk_trap", "sbrk_end",
                        "sbrk_rem", "sbrk_tot", "sbrk_resume"}

\* the comparison with >= for >
SbrkExceedsOrMeets(end, n) == PtrAdd(end, n) >= HeapLimit

\* currentHeapEnd + incr > &__HeapLimit
SbrkExceeds(end, n) == PtrAdd(end, n) > HeapLimit

\* the accounting with += for -=
RemainingAfterAdd(rem, n) == rem + n

\* heapBytesRemaining -= incr
RemainingAfter(rem, n) == rem - n

\* the policies whose failure branch calls xTaskResumeAll before the return
FailureResumes(p) == p = "Default"

NextLeastFailed(c) ==
    IF /\ leastFailed # Unrecorded
       /\ SbrkExceeds(currentHeapEnd, incr[c])
       /\ incr[c] >= 0 /\ incr[c] < leastFailed
       THEN incr[c]
       ELSE leastFailed

NextReqSum(n) ==
    IF reqSum = Out \/ n < 0 \/ reqSum + n > HEAP_SIZE THEN Out ELSE reqSum + n

\* where a returning _sbrk_r leaves its caller
ReturnPc(c) == IF op[c] = "malloc" THEN "malloc_exit"
               ELSE IF op[c] = "free" THEN "free_exit"
               ELSE "idle"

\* _sbrk_r relying on its caller's lock: the suspend dropped, the resume kept
sbrk_no_suspend(c) == UNCHANGED <<uxSchedulerSuspended, isrSuspends>>

\* vTaskSuspendAll(), _sbrk_r's first statement
sbrk_suspend(c) == vTaskSuspendAll(c)

\* entry to _sbrk_r(pReent, n), up to and including vTaskSuspendAll()
SbrkCall(c, n) ==
    /\ uxSchedulerSuspended < MaxNesting
    /\ sbrk_suspend(c)
    /\ pc' = [pc EXCEPT ![c] = "sbrk_check"]
    /\ incr' = [incr EXCEPT ![c] = n]
    /\ entry' = [entry EXCEPT ![c] = Snapshot(uxSchedulerSuspended, reqSum, errno[c])]
    /\ hookCalls' = [hookCalls EXCEPT ![c] = 0]
    /\ reqSum' = NextReqSum(n)
    /\ last' = NoCall
    /\ UNCHANGED <<tracker, running, policy, assertFailed, held, previousHeapEnd,
                   errno, sumGranted, granted, overlap, leastFailed>>
    /\ UNCHANGED shim
    /\ NoteCall(c, "_sbrk_r")

\* a caller's own _sbrk_r / sbrk / _sbrk call
Extend(c, n) ==
    /\ CanRun(c) /\ pc[c] = "idle"
    /\ SbrkCall(c, n)
    /\ UNCHANGED op

\* the check with the accounting done before it
SbrkCheckCharging(c) ==
    /\ CanRun(c) /\ pc[c] = "sbrk_check"
    /\ pc' = [pc EXCEPT ![c] =
                IF SbrkExceeds(currentHeapEnd, incr[c]) THEN "sbrk_fail" ELSE "sbrk_end"]
    /\ heapBytesRemaining' = IF SbrkExceeds(currentHeapEnd, incr[c])
                                THEN heapBytesRemaining - incr[c]
                                ELSE heapBytesRemaining
    /\ leastFailed' = NextLeastFailed(c)
    /\ last' = NoCall
    /\ UNCHANGED <<currentHeapEnd, totalBytesProvidedBySBRK, uxSchedulerSuspended,
                   running, policy, assertFailed, held, op, locals, errno,
                   isrSuspends, sumGranted, granted, overlap, reqSum>>
    /\ UNCHANGED shim
    /\ NoteCall(c, "")

SbrkCheck(c) ==
    /\ CanRun(c) /\ pc[c] = "sbrk_check"
    /\ pc' = [pc EXCEPT ![c] =
                IF SbrkExceeds(currentHeapEnd, incr[c]) THEN "sbrk_fail" ELSE "sbrk_end"]
    /\ leastFailed' = NextLeastFailed(c)
    /\ last' = NoCall
    /\ UNCHANGED <<tracker, uxSchedulerSuspended, running, policy, assertFailed, held,
                   op, locals, errno, isrSuspends, sumGranted, granted, overlap, reqSum>>
    /\ UNCHANGED shim
    /\ NoteCall(c, "")

\* the record of a call that returns ret, leaving the scheduler at depth
Completed(c, failed, ret, depth) ==
    [valid |-> TRUE, who |-> c, incr |-> incr[c], failed |-> failed, ret |-> ret,
     hook |-> 0, before |-> entry[c], after |-> Snapshot(depth, 0, errno'[c])]

Window(c) == {a \in 0 .. AddrSpace - 1 :
                 previousHeapEnd[c] <= a /\ a < previousHeapEnd[c] + incr[c]}

ResetLocals(c) ==
    /\ incr' = [incr EXCEPT ![c] = 0]
    /\ previousHeapEnd' = [previousHeapEnd EXCEPT ![c] = 0]
    /\ entry' = [entry EXCEPT ![c] = NoEntry]

\* the failing branch leaving the caller's errno as it was
sbrk_keep_errno(c) == UNCHANGED errno

\* pReent->_errno = ENOMEM
sbrk_set_errno(c) == errno' = [errno EXCEPT ![c] = ENOMEM]

\* the out-of-memory branch, by the build's policy
SbrkFail(c) ==
    /\ CanRun(c) /\ pc[c] = "sbrk_fail"
    /\ CASE policy = "CallFailureHook" ->
              /\ UNCHANGED <<uxSchedulerSuspended, errno>>
              /\ hookCalls' = [hookCalls EXCEPT ![c] = 0]
              /\ last' = [Completed(c, TRUE, SbrkFailed, uxSchedulerSuspended)
                             EXCEPT !.hook = hookCalls[c] + 1]
              /\ pc' = [pc EXCEPT ![c] = ReturnPc(c)]
              /\ ResetLocals(c)
         [] policy = "HardStop" ->
              /\ pc' = [pc EXCEPT ![c] = "sbrk_trap"]
              /\ last' = NoCall
              /\ UNCHANGED <<uxSchedulerSuspended, errno, locals>>
         [] OTHER ->
              /\ sbrk_set_errno(c)
              /\ IF FailureResumes(policy)
                    THEN xTaskResumeAll
                    ELSE UNCHANGED uxSchedulerSuspended
              /\ last' = [Completed(c, TRUE, SbrkFailed,
                                    IF FailureResumes(policy)
                                       THEN uxSchedulerSuspended - 1
                                       ELSE uxSchedulerSuspended)
                             EXCEPT !.hook = hookCalls[c]]
              /\ hookCalls' = [hookCalls EXCEPT ![c] = 0]
              /\ pc' = [pc EXCEPT ![c] = ReturnPc(c)]
              /\ ResetLocals(c)
    /\ UNCHANGED <<tracker, running, policy, assertFailed, held, op, isrSuspends,
                   sumGranted, granted, overlap, reqSum, leastFailed>>
    /\ UNCHANGED shim
    /\ NoteCall(c, "")

\* the breakpoint taken once, with no loop around it: the call falls through
\* to return (char *)-1
TrapOnce(c) ==
    /\ CanRun(c) /\ pc[c] = "sbrk_trap"
    /\ UNCHANGED <<uxSchedulerSuspended, errno, hookCalls>>
    /\ last' = Completed(c, TRUE, SbrkFailed, uxSchedulerSuspended)
    /\ pc' = [pc EXCEPT ![c] = ReturnPc(c)]
    /\ ResetLocals(c)
    /\ UNCHANGED <<tracker, running, policy, assertFailed, held, op, isrSuspends,
                   history>>
    /\ UNCHANGED shim
    /\ NoteCall(c, "")

\* while(1) { __asm("bkpt #0"); }
Trap(c) ==
    /\ CanRun(c) /\ pc[c] = "sbrk_trap"
    /\ UNCHANGED vars

\* the two statements in the other order: the new end is what gets returned
SbrkUpdateEndFirst(c) ==
    /\ CanRun(c) /\ pc[c] = "sbrk_end"
    /\ currentHeapEnd' = PtrAdd(currentHeapEnd, incr[c])
    /\ previousHeapEnd' = [previousHeapEnd EXCEPT ![c] = currentHeapEnd']
    /\ pc' = [pc EXCEPT ![c] = "sbrk_rem"]
    /\ last' = NoCall
    /\ UNCHANGED <<heapBytesRemaining, totalBytesProvidedBySBRK, uxSchedulerSuspended,
                   running, policy, assertFailed, held, op, incr, entry, hookCalls,
                   errno, isrSuspends, history>>
    /\ UNCHANGED shim
    /\ NoteCall(c, "")

\* previousHeapEnd = currentHeapEnd; currentHeapEnd += incr;
SbrkUpdateEnd(c) ==
    /\ CanRun(c) /\ pc[c] = "sbrk_end"
    /\ previousHeapEnd' = [previousHeapEnd EXCEPT ![c] = currentHeapEnd]
    /\ currentHeapEnd' = PtrAdd(currentHeapEnd, incr[c])
    /\ pc' = [pc EXCEPT ![c] = "sbrk_rem"]
    /\ last' = NoCall
    /\ UNCHANGED <<heapBytesRemaining, totalBytesProvidedBySBRK, uxSchedulerSuspended,
                   running, policy, assertFailed, held, op, incr, entry, hookCalls,
                   errno, isrSuspends, history>>
    /\ UNCHANGED shim
    /\ NoteCall(c, "")

\* heapBytesRemaining -= incr;
SbrkUpdateRemaining(c) ==
    /\ CanRun(c) /\ pc[c] = "sbrk_rem"
    /\ heapBytesRemaining' = RemainingAfter(heapBytesRemaining, incr[c])
    /\ pc' = [pc EXCEPT ![c] = "sbrk_tot"]
    /\ last' = NoCall
    /\ UNCHANGED <<currentHeapEnd, totalBytesProvidedBySBRK, uxSchedulerSuspended,
                   running, policy, assertFailed, held, op, locals, errno,
                   isrSuspends, history>>
    /\ UNCHANGED shim
    /\ NoteCall(c, "")

\* totalBytesProvidedBySBRK += incr;
SbrkUpdateTotal(c) ==
    /\ CanRun(c) /\ pc[c] = "sbrk_tot"
    /\ totalBytesProvidedBySBRK' = totalBytesProvidedBySBRK + incr[c]
    /\ pc' = [pc EXCEPT ![c] = "sbrk_resume"]
    /\ last' = NoCall
    /\ UNCHANGED <<currentHeapEnd, heapBytesRemaining, uxSchedulerSuspended,
                   running, policy, assertFailed, held, op, locals, errno,
                   isrSuspends, history>>
    /\ UNCHANGED shim
    /\ NoteCall(c, "")

\* xTaskResumeAll(); return (char *) previousHeapEnd;
SbrkReturn(c) ==
    /\ CanRun(c) /\ pc[c] = "sbrk_resume"
    /\ xTaskResumeAll
    /\ UNCHANGED errno
    /\ last' = [Completed(c, FALSE, previousHeapEnd[c], uxSchedulerSuspended - 1)
                   EXCEPT !.hook = hookCalls[c]]
    /\ sumGranted' = sumGranted + incr[c]
    /\ overlap' = (overlap \/ Window(c) \cap granted # {})
    /\ granted' = IF granted = Untracked THEN Untracked
                  ELSE IF overlap' THEN {} ELSE granted \cup Window(c)
    /\ hookCalls' = [hookCalls EXCEPT ![c] = 0]
    /\ pc' = [pc EXCEPT ![c] = ReturnPc(c)]
    /\ ResetLocals(c)
    /\ UNCHANGED <<tracker, running, policy, assertFailed, held, op,
                   isrSuspends, reqSum, leastFailed>>
    /\ UNCHANGED shim
    /\ NoteCall(c, "")

\* ------------------------------------------------- the FreeRTOS heap API
\* newlib's _malloc_r takes the allocator lock first
MallocEnter(c) ==
    /\ uxSchedulerSuspended < MaxNesting
    /\ malloc_lock(c)
    /\ IF xPortIsInsideInterrupt(c)
          THEN UNCHANGED <<pc, op>>
          ELSE /\ pc' = [pc EXCEPT ![c] = "malloc_body"]
               /\ op' = [op EXCEPT ![c] = "malloc"]
    /\ last' = NoCall
    /\ UNCHANGED <<tracker, running, policy, locals, errno, history>>
    /\ UNCHANGED shim
    /\ NoteCall(c, "__malloc_lock")

\* pvPortMalloc -> malloc -> _malloc_r
Allocate(c) ==
    /\ CanRun(c) /\ pc[c] = "idle"
    /\ MallocEnter(c)

\* malloc finds the block in its free list
AllocateFromFreeList(c) ==
    /\ CanRun(c) /\ pc[c] = "malloc_body"
    /\ pc' = [pc EXCEPT ![c] = "malloc_exit"]
    /\ last' = NoCall
    /\ UNCHANGED <<tracker, uxSchedulerSuspended, running, policy, assertFailed, held,
                   op, locals, errno, isrSuspends, history>>
    /\ UNCHANGED shim
    /\ NoteCall(c, "")

\* malloc needs more memory and calls _sbrk_r
AllocateExtends(c, n) ==
    /\ CanRun(c) /\ pc[c] = "malloc_body"
    /\ SbrkCall(c, n)
    /\ UNCHANGED op

\* where _malloc_r returns to: the wrapper that called it, or the application
AfterMalloc(c) ==
    CASE wrap[c] = "nested" -> "wrap_clear"
      [] wrap[c] = "malloc_r" -> "wrap_return"
      [] OTHER -> "idle"

\* malloc releases the allocator lock and returns
AllocateReturn(c) ==
    /\ CanRun(c) /\ pc[c] = "malloc_exit"
    /\ malloc_unlock(c)
    /\ pc' = [pc EXCEPT ![c] = AfterMalloc(c)]
    /\ op' = [op EXCEPT ![c] = "none"]
    /\ last' = NoCall
    /\ UNCHANGED <<tracker, running, policy, assertFailed, locals, errno,
                   isrSuspends, history>>
    /\ UNCHANGED shim
    /\ NoteCall(c, "")

\* vPortFree -> free: newlib takes the allocator lock first
Free(c) ==
    /\ CanRun(c) /\ pc[c] = "idle"
    /\ uxSchedulerSuspended < MaxNesting
    /\ malloc_lock(c)
    /\ IF xPortIsInsideInterrupt(c)
          THEN UNCHANGED <<pc, op>>
          ELSE /\ pc' = [pc EXCEPT ![c] = "free_body"]
               /\ op' = [op EXCEPT ![c] = "free"]
    /\ last' = NoCall
    /\ UNCHANGED <<tracker, running, policy, locals, errno, history>>
    /\ UNCHANGED shim
    /\ NoteCall(c, "__malloc_lock")

\* free finds the top of the heap unused and hands it back: newlib's
\* malloc_trim calls _sbrk_r with a negative increment
FreeTrims(c, n) ==
    /\ CanRun(c) /\ pc[c] = "free_body"
    /\ SbrkCall(c, n)
    /\ UNCHANGED op

\* free links the block into its free list, releases the lock and returns
FreeReturn(c) ==
    /\ CanRun(c) /\ pc[c] \in {"free_body", "free_exit"}
    /\ malloc_unlock(c)
    /\ pc' = [pc EXCEPT ![c] = "idle"]
    /\ op' = [op EXCEPT ![c] = "none"]
    /\ last' = NoCall
    /\ UNCHANGED <<tracker, running, policy, assertFailed, locals, errno,
                   isrSuspends, history>>
    /\ UNCHANGED shim
    /\ NoteCall(c, "")

\* what mallinfo() may report as the free bytes newlib holds
Fordblks == 0 .. MaxFree

\* the estimate without the part not yet handed to newlib
FreeHeapSizeOfNewlib(fordblks, remaining) == fordblks % AddrSpace

\* mi.fordblks + heapBytesRemaining, as size_t
FreeHeapSize(fordblks, remaining) == (fordblks + remaining) % AddrSpace

\* struct mallinfo mi = mallinfo(): newlib takes the allocator lock, fills in
\* the statistics and releases the lock
GetFreeHeapSize(c, f) ==
    /\ CanRun(c) /\ pc[c] = "idle"
    /\ uxSchedulerSuspended < MaxNesting
    /\ IF xPortIsInsideInterrupt(c)
          THEN AssertFails /\ UNCHANGED <<pc, mi>>
          ELSE /\ pc' = [pc EXCEPT ![c] = "estimate"]
               /\ mi' = [mi EXCEPT ![c] = f]
               /\ UNCHANGED <<assertFailed, uxSchedulerSuspended, isrSuspends, held>>
    /\ last' = NoCall
    /\ UNCHANGED <<tracker, running, policy, op, locals, errno, history, wrappers>>
    /\ NoteCall(c, "__malloc_lock")

\* what the return statement computes in the current state
xPortGetFreeHeapSize(c) == FreeHeapSize(mi[c], heapBytesRemaining)

\* return mi.fordblks + heapBytesRemaining;
GetFreeHeapSizeReturn(c) ==
    /\ CanRun(c) /\ pc[c] = "estimate"
    /\ pc' = [pc EXCEPT ![c] = "idle"]
    /\ mi' = [mi EXCEPT ![c] = 0]
    /\ last' = NoCall
    /\ UNCHANGED <<tracker, uxSchedulerSuspended, running, policy, assertFailed, held,
                   op, locals, errno, isrSuspends, history, wrappers>>
    /\ NoteCall(c, "")

\* ------------------------------------------ the malloc accounting wrappers
\* what a step inside a wrapper, outside newlib, leaves alone
WrapperFrame ==
    /\ last' = NoCall
    /\ UNCHANGED <<tracker, uxSchedulerSuspended, running, policy, assertFailed, held,
                   op, locals, errno, isrSuspends, history, mi>>

\* the application calls malloc(n) or pvPortMalloc(n): entry to __wrap_malloc
WrapMalloc(c, n) ==
    /\ CanRun(c) /\ pc[c] = "idle"
    /\ requests < MaxRequests
    /\ pc' = [pc EXCEPT ![c] = "wrap_cnt_load"]
    /\ wrap' = [wrap EXCEPT ![c] = "malloc"]
    /\ nbytes' = [nbytes EXCEPT ![c] = n]
    /\ requests' = requests + 1
    /\ requestedBytes' = requestedBytes + n
    /\ UNCHANGED <<counters, reg>>
    /\ WrapperFrame
    /\ NoteCall(c, "")

\* the application, or newlib on its behalf, calls _malloc_r(reent, n):
\* entry to __wrap__malloc_r
WrapMallocR(c, n) ==
    /\ CanRun(c) /\ pc[c] = "idle"
    /\ requests < MaxRequests
    /\ pc' = [pc EXCEPT ![c] = "wrap_test"]
    /\ wrap' = [wrap EXCEPT ![c] = "malloc_r"]
    /\ nbytes' = [nbytes EXCEPT ![c] = n]
    /\ requests' = requests + 1
    /\ requestedBytes' = requestedBytes + n
    /\ UNCHANGED <<counters, reg>>
    /\ WrapperFrame
    /\ NoteCall(c, "")

\* MallocCallCnt++: the load
WrapCountLoad(c) ==
    /\ CanRun(c) /\ pc[c] = "wrap_cnt_load"
    /\ reg' = [reg EXCEPT ![c] = MallocCallCnt]
    /\ pc' = [pc EXCEPT ![c] = "wrap_cnt_store"]
    /\ UNCHANGED <<counters, nbytes, wrap, requests, requestedBytes>>
    /\ WrapperFrame
    /\ NoteCall(c, "")

\* MallocCallCnt++: the store
WrapCountStore(c) ==
    /\ CanRun(c) /\ pc[c] = "wrap_cnt_store"
    /\ MallocCallCnt' = reg[c] + 1
    /\ reg' = [reg EXCEPT ![c] = 0]
    /\ pc' = [pc EXCEPT ![c] = "wrap_tot_load"]
    /\ UNCHANGED <<TotalMallocdBytes, inside_malloc, nbytes, wrap, requests,
                   requestedBytes>>
    /\ WrapperFrame
    /\ NoteCall(c, "")

\* TotalMallocdBytes += nbytes: the load
WrapTotalLoad(c) ==
    /\ CanRun(c) /\ pc[c] = "wrap_tot_load"
    /\ reg' = [reg EXCEPT ![c] = TotalMallocdBytes]
    /\ pc' = [pc EXCEPT ![c] = "wrap_tot_store"]
    /\ UNCHANGED <<counters, nbytes, wrap, requests, requestedBytes>>
    /\ WrapperFrame
    /\ NoteCall(c, "")

\* TotalMallocdBytes += nbytes: the store; __wrap_malloc goes on to set its
\* flag, __wrap__malloc_r to call __real__malloc_r
WrapTotalStore(c) ==
    /\ CanRun(c) /\ pc[c] = "wrap_tot_store"
    /\ TotalMallocdBytes' = reg[c] + nbytes[c]
    /\ reg' = [reg EXCEPT ![c] = 0]
    /\ pc' = [pc EXCEPT ![c] = IF wrap[c] = "malloc" THEN "wrap_flag" ELSE "wrap_real"]
    /\ UNCHANGED <<MallocCallCnt, inside_malloc, nbytes, wrap, requests,
                   requestedBytes>>
    /\ WrapperFrame
    /\ NoteCall(c, "")

\* inside_malloc = true; __real_malloc(nbytes) then calls __wrap__malloc_r
WrapSetFlag(c) ==
    /\ CanRun(c) /\ pc[c] = "wrap_flag"
    /\ inside_malloc' = TRUE
    /\ wrap' = [wrap EXCEPT ![c] = "nested"]
    /\ pc' = [pc EXCEPT ![c] = "wrap_test"]
    /\ UNCHANGED <<MallocCallCnt, TotalMallocdBytes, nbytes, reg, requests,
                   requestedBytes>>
    /\ WrapperFrame
    /\ NoteCall(c, "")

\* if(!inside_malloc)
WrapTest(c) ==
    /\ CanRun(c) /\ pc[c] = "wrap_test"
    /\ pc' = [pc EXCEPT ![c] = IF inside_malloc THEN "wrap_real" ELSE "wrap_cnt_load"]
    /\ UNCHANGED wrappers
    /\ WrapperFrame
    /\ NoteCall(c, "")

\* void *p = __real__malloc_r(nbytes)
RealMalloc(c) ==
    /\ CanRun(c) /\ pc[c] = "wrap_real"
    /\ MallocEnter(c)

\* inside_malloc = false; return p;
WrapClearFlag(c) ==
    /\ CanRun(c) /\ pc[c] = "wrap_clear"
    /\ inside_malloc' = FALSE
    /\ wrap' = [wrap EXCEPT ![c] = "none"]
    /\ nbytes' = [nbytes EXCEPT ![c] = 0]
    /\ pc' = [pc EXCEPT ![c] = "idle"]
    /\ UNCHANGED <<MallocCallCnt, TotalMallocdBytes, reg, requests, requestedBytes>>
    /\ WrapperFrame
    /\ NoteCall(c, "")

\* __wrap__malloc_r, called directly: return p;
WrapReturn(c) ==
    /\ CanRun(c) /\ pc[c] = "wrap_return"
    /\ wrap' = [wrap EXCEPT ![c] = "none"]
    /\ nbytes' = [nbytes EXCEPT ![c] = 0]
    /\ pc' = [pc EXCEPT ![c] = "idle"]
    /\ UNCHANGED <<counters, reg, requests, requestedBytes>>
    /\ WrapperFrame
    /\ NoteCall(c, "")

\* ------------------------------------------------------- specifications
\* the steps inside _sbrk_r
SbrkStep(c) ==
    \/ SbrkCheck(c)
    \/ SbrkFail(c)
    \/ Trap(c)
    \/ SbrkUpdateEnd(c)
    \/ SbrkUpdateRemaining(c)
    \/ SbrkUpdateTotal(c)
    \/ SbrkReturn(c)

Step(c) ==
    \/ MallocLock(c)
    \/ MallocUnlock(c)
    \/ EnvLock(c)
    \/ EnvUnlock(c)
    \/ \E n \in Increments : Extend(c, n)
    \/ SbrkStep(c)
    \/ Allocate(c)
    \/ AllocateFromFreeList(c)
    \/ \E n \in 1 .. MaxIncr : AllocateExtends(c, n)
    \/ AllocateReturn(c)
    \/ Free(c)
    \/ \E n \in (0 - MaxShrink) .. (0 - 1) : FreeTrims(c, n)
    \/ FreeReturn(c)

Next ==
    \/ \E t \in Tasks : ContextSwitch(t)
    \/ \E t \in Tasks : Step(t)

\* tasks only
Spec == Init /\ [][Next]_vars

\* tasks only, recording the granted windows
SpecWindows == InitWindows /\ [][Next]_vars

\* what a task does beside the handler: the allocator lock and _sbrk_r
TaskStepISR(t) ==
    \/ MallocLock(t)
    \/ MallocUnlock(t)
    \/ \E n \in Increments : Extend(t, n)
    \/ SbrkStep(t)

\* an interrupt handler calling the entry points that open a critical section;
\* its _sbrk_r call is sbrk(0), the query of the current end
HandlerStep ==
    \/ MallocLock(ISR)
    \/ EnvLock(ISR)
    \/ EnvUnlock(ISR)
    \/ Extend(ISR, 0)
    \/ SbrkStep(ISR)

NextISR ==
    \/ \E t \in Tasks : ContextSwitch(t)
    \/ \E t \in Tasks : TaskStepISR(t)
    \/ HandlerStep

\* tasks only, recording the failed deltas
SpecFailures == InitFailures /\ [][Next]_vars

\* a task using the FreeRTOS heap API and sbrk, the free-space query included
HeapApiStep(c) ==
    \/ \E n \in Increments : Extend(c, n)
    \/ SbrkStep(c)
    \/ Allocate(c)
    \/ AllocateFromFreeList(c)
    \/ \E n \in 1 .. MaxIncr : AllocateExtends(c, n)
    \/ AllocateReturn(c)
    \/ Free(c)
    \/ \E n \in (0 - MaxShrink) .. (0 - 1) : FreeTrims(c, n)
    \/ FreeReturn(c)
    \/ \E f \in Fordblks : GetFreeHeapSize(c, f)
    \/ GetFreeHeapSizeReturn(c)

NextEstimate ==
    \/ \E t \in Tasks : ContextSwitch(t)
    \/ \E t \in Tasks : HeapApiStep(t)

\* tasks only, querying the free space between and during the other calls
SpecEstimate == Init /\ [][NextEstimate]_vars

\* a task allocating in a build with the wrappers linked in; newlib serves
\* the request from its free list
WrapStep(c) ==
    \/ \E n \in 1 .. MaxBytes : WrapMalloc(c, n)
    \/ \E n \in 1 .. MaxBytes : WrapMallocR(c, n)
    \/ WrapCountLoad(c)
    \/ WrapCountStore(c)
    \/ WrapTotalLoad(c)
    \/ WrapTotalStore(c)
    \/ WrapSetFlag(c)
    \/ WrapTest(c)
    \/ RealMalloc(c)
    \/ AllocateFromFreeList(c)
    \/ AllocateReturn(c)
    \/ WrapClearFlag(c)
    \/ WrapReturn(c)

NextWrap ==
    \/ \E t \in Tasks : ContextSwitch(t)
    \/ \E t \in Tasks : WrapStep(t)

\* tasks only, every allocation going through the wrappers
SpecWrap == Init /\ [][NextWrap]_vars

\* tasks and an interrupt handler
SpecISR == Init /\ [][NextISR]_vars

\* ---------------------------------------------------------------- claims
Failing(c) == pc[c] \in {"sbrk_fail", "sbrk_trap"}
Succeeding(c) == pc[c] \in {"sbrk_end", "sbrk_rem", "sbrk_tot", "sbrk_resume"}
NoCallInFlight == \A c \in Callers : ~InSbrk(c)
\* no task is inside a call or holds a lock
Quiescent == \A t \in Tasks : pc[t] = "idle" /\ held[t] = <<>>
\* the critical sections a caller's call chain has open
Open(c) == Len(held[c]) + (IF InSbrk(c) THEN 1 ELSE 0)

\* C1: in every reachable state, whatever signed deltas were passed to
\* _sbrk_r, HeapBase <= currentHeapEnd <= HeapLimit.
C1_EndWithinRegion ==
    HeapBase <= currentHeapEnd /\ currentHeapEnd <= HeapLimit

\* C2: the outcome of interleaved _sbrk_r calls is that of a sequential order:
\* at most one task is inside the call, no granted window meets an earlier
\* one, and between calls currentHeapEnd is HeapBase plus the sum of the
\* deltas of the successful calls.
C2_SerialOutcome ==
    /\ \A t1, t2 \in Tasks : InSbrk(t1) /\ InSbrk(t2) => t1 = t2
    /\ ~overlap
    /\ NoCallInFlight => currentHeapEnd = HeapBase + sumGranted

\* C3: a failing _sbrk_r call leaves currentHeapEnd, heapBytesRemaining and
\* totalBytesProvidedBySBRK as it found them, under every policy, and what it
\* returns is (char *)-1.
C3_FailureLeavesTracker ==
    /\ \A t \in Tasks : Failing(t) =>
          /\ currentHeapEnd = entry[t].end
          /\ heapBytesRemaining = entry[t].rem
          /\ totalBytesProvidedBySBRK = entry[t].tot
    /\ last.valid /\ last.failed =>
          /\ last.ret = AddrSpace - 1
          /\ last.after.end = last.before.end
          /\ last.after.rem = last.before.rem
          /\ last.after.tot = last.before.tot

\* a call failed, under the hook policy, after some memory had been granted
C3_Witness ==
    /\ policy = "CallFailureHook"
    /\ last.valid /\ last.failed
    /\ last.before.end > HeapBase

\* C4: a call with delta >= 0 succeeds exactly when the end it found plus
\* delta is at most HeapLimit, whatever failed before.
C4_SucceedsIffFits ==
    /\ \A t \in Tasks : incr[t] >= 0 =>
          /\ Failing(t) => entry[t].end + incr[t] > HeapLimit
          /\ Succeeding(t) => entry[t].end + incr[t] <= HeapLimit
    /\ last.valid /\ last.incr >= 0 =>
          (last.failed <=> last.before.end + last.incr > HeapLimit)

\* a task whose earlier call failed is granted a window ending at HeapLimit
C4_Witness ==
    /\ last.valid /\ ~last.failed
    /\ last.incr > 0
    /\ last.after.end = HeapLimit
    /\ last.who \in Tasks /\ errno[last.who] = ENOMEM

\* C5: while every delta requested so far is non-negative and their sum is at
\* most HEAP_SIZE, no call fails, each call returns HeapBase plus the sum of
\* the deltas requested before it, and between calls currentHeapEnd is
\* HeapBase plus the sum of all of them.
C5_FittingSequence ==
    reqSum # Out =>
        /\ \A t \in Tasks : ~Failing(t)
        /\ last.valid => ~last.failed /\ last.ret = HeapBase + last.before.req
        /\ NoCallInFlight => currentHeapEnd = HeapBase + reqSum

\* a later call of a sequence that fills the region exactly has returned
C5_Witness ==
    /\ reqSum = HEAP_SIZE
    /\ last.valid /\ last.before.req > 0 /\ last.incr > 0
    /\ last.ret = HeapBase + last.before.req

\* C6: heapBytesRemaining = HeapLimit - currentHeapEnd except between the two
\* updates inside _sbrk_r, where the scheduler is suspended and the task
\* inside is the one running.
C6_RemainingIsLimitMinusEnd ==
    /\ (\A t \in Tasks : pc[t] # "sbrk_rem") =>
          heapBytesRemaining = HeapLimit - currentHeapEnd
    /\ \A t \in Tasks : pc[t] = "sbrk_rem" =>
          uxSchedulerSuspended > 0 /\ running = t

\* a successful call has returned and the counter has moved with the end
C6_Witness ==
    /\ last.valid /\ ~last.failed /\ last.incr > 0
    /\ heapBytesRemaining < HEAP_SIZE
    /\ Quiescent

\* C7: a step in which the interrupt handler calls __malloc_lock ends in the
\* failed assertion, with the suspension depth and the handler's locks as
\* they were: the call is never a normal acquisition.
C7_LockInInterruptAsserts ==
    [][isrCalled' = "__malloc_lock" =>
          /\ assertFailed'
          /\ uxSchedulerSuspended' = uxSchedulerSuspended
          /\ held'[ISR] = held[ISR]]_vars

\* the handler interrupted a task inside _sbrk_r, called __malloc_lock and
\* the assertion fired
C7_Witness ==
    /\ isrCalled = "__malloc_lock"
    /\ assertFailed
    /\ \E t \in Tasks : InSbrk(t)

\* C8: vTaskSuspendAll is never invoked in interrupt context (the assertion
\* halts the system first), whichever entry point the handler calls.
C8_NoSuspendInInterrupt == ~isrSuspends

\* C9: while a task's call chain has critical sections open, nested in any
\* way, that task stays the running one, the suspension depth is at least the
\* number of its open sections, and the task can take its next step.
C9_NestedSectionsExclude ==
    \A t \in Tasks : Open(t) > 0 =>
        /\ running = t
        /\ uxSchedulerSuspended >= Open(t)
        /\ ENABLED Step(t)

\* _sbrk_r has returned to a task that holds the allocator lock inside the
\* environment lock, and the scheduler is still suspended twice
C9_Witness ==
    \E t \in Tasks :
        /\ held[t] = <<"env", "malloc">>
        /\ last.valid /\ ~last.failed /\ last.who = t
        /\ uxSchedulerSuspended = 2

\* C10: under the Default and CallFailureHook policies, once every task has
\* left its critical sections the suspension depth is back at zero.
C10_SectionsComplete ==
    (policy # "HardStop" /\ Quiescent) => uxSchedulerSuspended = 0

\* C11: no step of any operation makes currentHeapEnd smaller than it was,
\* whatever signed delta _sbrk_r is given.
C11_EndNeverDecreases ==
    [][currentHeapEnd' >= currentHeapEnd]_vars

\* C12: no step taken inside vPortFree, from the call of free to its return,
\* changes currentHeapEnd or heapBytesRemaining.
C12_FreeLeavesTracker ==
    [][(\E t \in Tasks : op[t] = "free" \/ op'[t] = "free") =>
          UNCHANGED <<currentHeapEnd, heapBytesRemaining>>]_vars

\* C13: once a call with a delta d >= 0 has failed, no later call with that
\* delta or a larger one succeeds, whatever calls were made in between.
C13_FailureIsPermanent ==
    \A t \in Tasks : Succeeding(t) => incr[t] < leastFailed

\* C14: under the Default policy a failing call sets the caller's errno to
\* ENOMEM and returns (char *)-1; a succeeding call leaves the caller's errno
\* as it found it, at every step and on return.
C14_DefaultSetsErrno ==
    policy = "Default" =>
        /\ \A t \in Tasks : Succeeding(t) => errno[t] = entry[t].err
        /\ last.valid =>
              IF last.failed
                 THEN last.after.err = 12 /\ last.ret = AddrSpace - 1
                 ELSE last.after.err = last.before.err

\* a failing call under the Default policy has changed an errno that was clear
C14_Witness ==
    /\ policy = "Default"
    /\ last.valid /\ last.failed
    /\ last.before.err = 0
    /\ errno[last.who] = ENOMEM

\* C15: under the CallFailureHook policy a failing call invokes the hook
\* exactly once and then completes as under the Default policy, with the
\* caller's errno at ENOMEM and (char *)-1 returned; a succeeding call does
\* not invoke the hook.
C15_HookThenDefault ==
    (policy = "CallFailureHook" /\ last.valid) =>
        IF last.failed
           THEN /\ last.hook = 1
                /\ last.after.err = 12
                /\ last.ret = AddrSpace - 1
           ELSE last.hook = 0

\* C16: under the HardStop policy a failing call never returns: from the step
\* that takes the failing branch on, the caller stays inside the call, the
\* scheduler stays suspended with the caller as the running task, no other
\* task moves, and currentHeapEnd and heapBytesRemaining do not change.
C16_HardStopNeverReturns ==
    [][\A t \in Tasks : (policy = "HardStop" /\ Failing(t)) =>
          /\ Failing(t)'
          /\ ~last'.valid
          /\ running = t /\ running' = t
          /\ uxSchedulerSuspended > 0
          /\ uxSchedulerSuspended' = uxSchedulerSuspended
          /\ \A u \in Tasks \ {t} :
                pc'[u] = pc[u] /\ held'[u] = held[u] /\ op'[u] = op[u]
          /\ UNCHANGED <<currentHeapEnd, heapBytesRemaining>>]_vars

\* a call made by malloc is in the trap loop, after memory had been granted
C16_Witness ==
    /\ policy = "HardStop"
    /\ \E t \in Tasks :
          /\ pc[t] = "sbrk_trap"
          /\ op[t] = "malloc"
          /\ uxSchedulerSuspended = 2
    /\ currentHeapEnd > HeapBase

\* C17: whenever xPortGetFreeHeapSize is about to return, what it returns is
\* the free bytes mallinfo reported plus HeapLimit - currentHeapEnd; and for
\* any free bytes newlib reports, the estimate after a successful _sbrk_r
\* call by d is d less than the estimate before it, and after a failed call
\* it is the same.
C17_EstimateIsFreePlusUnclaimed ==
    /\ \A t \in Tasks : (pc[t] = "estimate" /\ CanRun(t)) =>
          xPortGetFreeHeapSize(t) = mi[t] + (HeapLimit - currentHeapEnd)
    /\ last.valid =>
          \A f \in Fordblks :
             FreeHeapSize(f, last.after.rem) =
                FreeHeapSize(f, last.before.rem) - (IF last.failed THEN 0 ELSE last.incr)

\* a task is about to return its estimate after memory was handed to newlib
\* and while newlib reports free bytes of its own
C17_Witness ==
    \E t \in Tasks :
        /\ pc[t] = "estimate" /\ CanRun(t)
        /\ mi[t] > 0
        /\ currentHeapEnd > HeapBase /\ currentHeapEnd < HeapLimit

\* C18: every _sbrk_r call that returns, succeeding or failing, leaves the
\* suspension depth as it found it on entry.
C18_ReturnRestoresDepth ==
    last.valid => last.after.depth = last.before.depth

\* C19: with the wrappers linked in, once every allocation request has
\* returned MallocCallCnt is the number of requests the application made and
\* TotalMallocdBytes the sum of their sizes, whatever the interleaving; and
\* no step makes either counter smaller.
C19_EveryRequestCountedOnce ==
    /\ []((\A t \in Tasks : pc[t] = "idle") =>
             /\ MallocCallCnt = requests
             /\ TotalMallocdBytes = requestedBytes)
    /\ [][/\ MallocCallCnt' >= MallocCallCnt
          /\ TotalMallocdBytes' >= TotalMallocdBytes]_vars

====
